---- MODULE Spec2Model ----
(***************************************************************************)
(* Model of the SlideBanai backend's configuration, logging and error      *)
(* handling layer:                                                         *)
(*   apps/backend/middleware/error_middleware.py                           *)
(*   apps/backend/config/settings.py                                       *)
(*   apps/backend/config/logging_config.py                                 *)
(*                                                                         *)
(* Python values are represented as follows.                               *)
(*   str            a TLA+ string                                          *)
(*   int            an integer                                             *)
(*   dict           a set of <<key, value>> pairs ({} is the empty dict)   *)
(*   list           a sequence                                             *)
(*   Optional[T]    [some |-> BOOLEAN, v |-> T]  (some = FALSE is None)    *)
(*   Union[int,str] <<"i", n>> or <<"s", text>>                            *)
(* Two strings are kept as sequences, because the code looks inside them:  *)
(* LOG_LEVEL is a sequence of characters and GOOGLE_SERVICE_ACCOUNT_KEY a  *)
(* sequence of JSON tokens.                                                *)
(***************************************************************************)
EXTENDS Integers, Sequences, FiniteSets, TLC

VARIABLES
    settings,     \* the module-level Settings instance (settings.py:145)
    pc,           \* position of the modelled flow
    now,          \* the UTC clock read by datetime.utcnow()
    request_exc,  \* <<>> or <<the exception the route raised>>
    ctor_args,    \* <<>> or <<the arguments the route constructed it with>>
    exc,          \* <<>> or <<the exception now passed to a handler>>
    response,     \* <<>> or <<the JSONResponse an exception handler returned>>
    calls,        \* the handler invocations of this request, in order
    escaped,      \* TRUE when an exception left the last handler unanswered
    lastLog,      \* <<>> or <<the last call made on the module logger>>
    credentials,  \* <<>> or <<outcome of the last read of google_credentials_dict>>
    cors_result,  \* <<>> or <<the list the last get_cors_origins() returned>>
    allow_origins,\* <<>> or <<the allow_origins registered with CORSMiddleware>>
    root_handlers,\* the root logger's handlers list
    root_level,   \* the root logger's level
    lib_levels,   \* the levels of the httpx, httpcore and openai loggers
    setup_calls,  \* number of setup_logging() calls made so far
    setup_status, \* "" before the first call, then "ok" or the error raised
    dirty,        \* TRUE when other code attached a handler since the last call
    last_op,      \* the last operation on the logging system
    last_record,  \* <<>> or <<the last record logged>>
    emitted       \* the lines the attached handlers wrote for last_record

cfgVars == <<credentials, cors_result, allow_origins>>
logVars == <<root_handlers, root_level, lib_levels, setup_calls, setup_status,
             dirty, last_op, last_record, emitted>>
errVars == <<request_exc, ctor_args, exc, response, calls, escaped, lastLog>>
vars == <<settings, pc, now, errVars, cfgVars, logVars>>

(***************************************************************************)
(* Bounds of the model.                                                    *)
(***************************************************************************)
MaxClock == 2
MaxErrors == 2
MaxKeyLen == 5
MaxHandlers == 2
MaxSetupCalls == 2

(***************************************************************************)
(* Python helpers.                                                         *)
(***************************************************************************)
NoneDict == [some |-> FALSE, v |-> {}]
NoneStr == [some |-> FALSE, v |-> ""]
NoneInt == [some |-> FALSE, v |-> 0]
NoneId == [some |-> FALSE, v |-> <<"i", 0>>]
Some(x) == [some |-> TRUE, v |-> x]

Digit(d) == CASE d = 0 -> "0" [] d = 1 -> "1" [] d = 2 -> "2" [] d = 3 -> "3"
              [] d = 4 -> "4" [] d = 5 -> "5" [] d = 6 -> "6" [] d = 7 -> "7"
              [] d = 8 -> "8" [] d = 9 -> "9"

RECURSIVE NatToStr(_)
NatToStr(n) == IF n < 10 THEN Digit(n) ELSE NatToStr(n \div 10) \o Digit(n % 10)

\* str(n) for an int
IntToStr(n) == IF n < 0 THEN "-" \o NatToStr(0 - n) ELSE NatToStr(n)

\* str(x) / "{x}" in an f-string, for x an int or a str
PyStr(x) == IF x[1] = "i" THEN IntToStr(x[2]) ELSE x[2]

\* bool(x) for x an Optional[Union[int, str]]
TruthyId(x) == /\ x.some
               /\ (x.v[1] = "i" => x.v[2] # 0)
               /\ (x.v[1] = "s" => x.v[2] # "")

\* `details or {}` for details an Optional[dict]
OrEmptyDict(details) == IF details.some /\ details.v # {} THEN details.v ELSE {}

\* `arg` when given, else the parameter's default value
OrDefault(arg, default) == IF arg.some THEN arg.v ELSE default

(***************************************************************************)
(* Error taxonomy (error_middleware.py:19-129).                            *)
(***************************************************************************)
HTTP_400_BAD_REQUEST == 400
HTTP_401_UNAUTHORIZED == 401
HTTP_402_PAYMENT_REQUIRED == 402
HTTP_403_FORBIDDEN == 403
HTTP_404_NOT_FOUND == 404
HTTP_409_CONFLICT == 409
HTTP_429_TOO_MANY_REQUESTS == 429
HTTP_500_INTERNAL_SERVER_ERROR == 500
HTTP_503_SERVICE_UNAVAILABLE == 503

\* APIError.__init__ as run for an instance of class cls
APIError_init(cls, message, code, status_code, details) ==
    [cls |-> cls,
     message |-> message,
     code |-> code,
     status_code |-> status_code,
     details |-> OrEmptyDict(details)]

\* APIError(message, code=..., status_code=..., details=None); code and
\* status_code are Optional here: None stands for "argument not passed"
APIError(message, code, status_code, details) ==
    APIError_init("APIError", message,
                  OrDefault(code, "INTERNAL_SERVER_ERROR"),
                  OrDefault(status_code, HTTP_500_INTERNAL_SERVER_ERROR),
                  details)

ValidationException(message, details) ==
    APIError_init("ValidationException", message, "VALIDATION_ERROR",
                  HTTP_400_BAD_REQUEST, details)

AuthenticationException(message) ==
    APIError_init("AuthenticationException",
                  OrDefault(message, "Authentication required"),
                  "AUTHENTICATION_ERROR", HTTP_401_UNAUTHORIZED, NoneDict)

AuthorizationException(message) ==
    APIError_init("AuthorizationException",
                  OrDefault(message, "Insufficient permissions"),
                  "AUTHORIZATION_ERROR", HTTP_403_FORBIDDEN, NoneDict)

\* the message NotFoundException.__init__ builds (lines 74-76)
NotFoundMessage(resource, resource_id) ==
    IF TruthyId(resource_id)
    THEN (resource \o " not found") \o " (id: " \o PyStr(resource_id.v) \o ")"
    ELSE resource \o " not found"

NotFoundException(resource, resource_id) ==
    APIError_init("NotFoundException", NotFoundMessage(resource, resource_id),
                  "NOT_FOUND", HTTP_404_NOT_FOUND, NoneDict)

ConflictException(message, details) ==
    APIError_init("ConflictException", message, "CONFLICT",
                  HTTP_409_CONFLICT, details)

RateLimitException(message) ==
    APIError_init("RateLimitException",
                  OrDefault(message, "Rate limit exceeded"),
                  "RATE_LIMIT_EXCEEDED", HTTP_429_TOO_MANY_REQUESTS, NoneDict)

ExternalServiceException(service, message) ==
    APIError_init("ExternalServiceException",
                  service \o " error: " \o message,
                  "EXTERNAL_SERVICE_ERROR", HTTP_503_SERVICE_UNAVAILABLE,
                  Some({<<"service", service>>}))

InsufficientCreditsException(required, available) ==
    APIError_init("InsufficientCreditsException",
                  "Insufficient credits (required: " \o IntToStr(required)
                      \o ", available: " \o IntToStr(available) \o ")",
                  "INSUFFICIENT_CREDITS", HTTP_402_PAYMENT_REQUIRED,
                  Some({<<"required", required>>, <<"available", available>>}))

(***************************************************************************)
(* Response normalizer (error_middleware.py:132-210).                      *)
(***************************************************************************)
\* datetime.utcnow().isoformat() + "Z" for the clock value t: the rendering
\* of the instant is kept abstract, the appended suffix is not
Timestamp(t) == [utc |-> t, suffix |-> "Z"]

\* create_error_response(code, message, status_code, details=None), with the
\* clock value t that datetime.utcnow() returns inside it
create_error_response(code, message, status_code, details, t) ==
    [status_code |-> status_code,
     content |-> [error |-> [code |-> code,
                             message |-> message,
                             details |-> OrEmptyDict(details),
                             timestamp |-> Timestamp(t)]]]

\* the logger.error(...) call of api_error_handler (lines 162-165)
ApiErrorLog(e) ==
    [level |-> "ERROR",
     msg |-> "API Error: " \o e.code \o " - " \o e.message,
     extra |-> [code |-> e.code, details |-> e.details],
     exc_info |-> FALSE]

\* api_error_handler answering every typed error with status 500
ApiErrorResponse_Status500(e, t) ==
    [status_code |-> HTTP_500_INTERNAL_SERVER_ERROR,
     content |-> [error |-> [code |-> e.code,
                             message |-> e.message,
                             details |-> e.details,
                             timestamp |-> [utc |-> t, suffix |-> "Z"]]]]

\* the return value of api_error_handler (lines 167-172)
ApiErrorResponse(e, t) ==
    create_error_response(e.code, e.message, e.status_code, Some(e.details), t)

\* ".".join(parts) for a list of strings
RECURSIVE Join(_, _)
Join(sep, parts) ==
    IF Len(parts) = 0 THEN ""
    ELSE IF Len(parts) = 1 THEN parts[1]
    ELSE parts[1] \o sep \o Join(sep, Tail(parts))

\* the errors list validation_error_handler builds (lines 177-183)
ValidationErrors(errs) ==
    [i \in 1..Len(errs) |->
        [field |-> Join(".", [j \in 1..Len(errs[i].loc) |-> PyStr(errs[i].loc[j])]),
         message |-> errs[i].msg,
         type |-> errs[i].type]]

\* the logger.warning(...) call of validation_error_handler (line 185)
ValidationLog(e) ==
    [level |-> "WARNING",
     msg |-> "Validation error: ",
     extra |-> [errors |-> ValidationErrors(e.errors)],
     exc_info |-> FALSE]

\* the return value of validation_error_handler (lines 187-192)
ValidationResponse(e, t) ==
    create_error_response("VALIDATION_ERROR", "Request validation failed",
                          HTTP_400_BAD_REQUEST,
                          Some({<<"errors", ValidationErrors(e.errors)>>}), t)

\* the logger.exception(...) call of generic_error_handler (line 197)
GenericLog(e) ==
    [level |-> "ERROR",
     msg |-> "Unhandled exception occurred",
     extra |-> <<>>,
     exc_info |-> TRUE]

\* generic_error_handler without the production check
GenericMessage_NoRedaction(environment, e) == e.text

\* the message generic_error_handler picks (lines 201-204); e.text is str(exc)
GenericMessage(environment, e) ==
    IF environment = "production"
    THEN "An internal error occurred"
    ELSE e.text

\* the return value of generic_error_handler (lines 206-210)
GenericResponse(environment, e, t) ==
    create_error_response("INTERNAL_SERVER_ERROR", GenericMessage(environment, e),
                          HTTP_500_INTERNAL_SERVER_ERROR, NoneDict, t)

(***************************************************************************)
(* Handler registration and lookup.                                        *)
(***************************************************************************)
APIErrorSubclasses ==
    {"ValidationException", "AuthenticationException", "AuthorizationException",
     "NotFoundException", "ConflictException", "RateLimitException",
     "ExternalServiceException", "InsufficientCreditsException"}

\* method resolution order of the exception classes that occur
MRO(cls) ==
    CASE cls \in APIErrorSubclasses -> <<cls, "APIError", "Exception">>
      [] cls = "APIError" -> <<"APIError", "Exception">>
      [] cls = "RequestValidationError" -> <<"RequestValidationError", "Exception">>
      [] cls = "ValidationError" -> <<"ValidationError", "ValueError", "Exception">>
      [] cls = "ValueError" -> <<"ValueError", "Exception">>
      [] cls = "KeyError" -> <<"KeyError", "LookupError", "Exception">>
      [] cls = "Exception" -> <<"Exception">>

\* the handlers setup_error_handlers registers, by exception class
exception_handlers ==
    {<<"APIError", "api_error_handler">>,
     <<"RequestValidationError", "validation_error_handler">>,
     <<"Exception", "generic_error_handler">>}

\* the handler registered for the first class of the exception's MRO that
\* has one (most specific match)
RECURSIVE LookupHandler(_)
LookupHandler(mro) ==
    IF Len(mro) = 0 THEN ""
    ELSE IF \E h \in exception_handlers : h[1] = Head(mro)
         THEN (CHOOSE h \in exception_handlers : h[1] = Head(mro))[2]
         ELSE LookupHandler(Tail(mro))

HandlerFor(e) == LookupHandler(MRO(e.cls))

(***************************************************************************)
(* Settings (settings.py:14-145): the fields the modelled code reads.      *)
(***************************************************************************)
DefaultCorsOrigins ==
    <<"http://localhost:3000", "http://localhost:5173",
      "https://slidebanai.vercel.app">>

\* Settings(...) with the given values for the fields read by this model
Settings(environment, log_level, log_format, cors_origins, google_key) ==
    [ENVIRONMENT |-> environment,
     LOG_LEVEL |-> log_level,
     LOG_FORMAT |-> log_format,
     CORS_ORIGINS |-> cors_origins,
     GOOGLE_SERVICE_ACCOUNT_KEY |-> google_key]

Environments == {"production", "development", "staging", "Production"}

ProductionCorsOrigins ==
    <<"https://slidebanai.com", "https://www.slidebanai.com",
      "https://app.slidebanai.com">>

\* get_cors_origins() returning the configured list in every environment
get_cors_origins_Configured(s) == s.CORS_ORIGINS

\* get_cors_origins() for the settings instance s (lines 152-166)
get_cors_origins(s) ==
    IF s.ENVIRONMENT = "production"
    THEN ProductionCorsOrigins
    ELSE s.CORS_ORIGINS

(***************************************************************************)
(* json.loads over a token sequence: a value is a string or an object      *)
(* {"k": value, ...}; anything else, and trailing tokens, is a             *)
(* JSONDecodeError.                                                        *)
(***************************************************************************)
JsonFail == [ok |-> FALSE, next |-> 0, value |-> <<"none">>]
IsStringToken(tok) == tok = "\"type\""

RECURSIVE ParseValue(_, _)
RECURSIVE ParseMembers(_, _, _)
ParseValue(t, i) ==
    IF i > Len(t) THEN JsonFail
    ELSE IF IsStringToken(t[i])
         THEN [ok |-> TRUE, next |-> i + 1, value |-> <<"str", t[i]>>]
    ELSE IF t[i] = "{"
         THEN IF i + 1 <= Len(t) /\ t[i + 1] = "}"
              THEN [ok |-> TRUE, next |-> i + 2, value |-> <<"dict", {}>>]
              ELSE ParseMembers(t, i + 1, {})
    ELSE JsonFail

ParseMembers(t, i, acc) ==
    IF i + 1 > Len(t) \/ ~IsStringToken(t[i]) \/ t[i + 1] # ":" THEN JsonFail
    ELSE LET v == ParseValue(t, i + 2)
             members == {m \in acc : m[1] # t[i]} \cup {<<t[i], v.value>>}
         IN IF ~v.ok \/ v.next > Len(t) THEN JsonFail
            ELSE IF t[v.next] = "}"
                 THEN [ok |-> TRUE, next |-> v.next + 1, value |-> <<"dict", members>>]
            ELSE IF t[v.next] = ","
                 THEN ParseMembers(t, v.next + 1, members)
            ELSE JsonFail

json_loads(t) ==
    LET r == ParseValue(t, 1)
    IN IF r.ok /\ r.next = Len(t) + 1 THEN r ELSE JsonFail

\* Settings.google_credentials_dict read on the instance s (lines 68-74):
\* the parsed value, or the ValueError it raises
google_credentials_dict(s) ==
    LET r == json_loads(s.GOOGLE_SERVICE_ACCOUNT_KEY)
    IN IF r.ok
       THEN [raised |-> "", value |-> r.value]
       ELSE [raised |-> "ValueError: Invalid GOOGLE_SERVICE_ACCOUNT_KEY JSON",
             value |-> <<"none">>]

(***************************************************************************)
(* Logging (logging_config.py).                                            *)
(***************************************************************************)
UpperChar(c) ==
    CASE c = "a" -> "A" [] c = "b" -> "B" [] c = "c" -> "C" [] c = "d" -> "D"
      [] c = "e" -> "E" [] c = "f" -> "F" [] c = "g" -> "G" [] c = "h" -> "H"
      [] c = "i" -> "I" [] c = "j" -> "J" [] c = "k" -> "K" [] c = "l" -> "L"
      [] c = "m" -> "M" [] c = "n" -> "N" [] c = "o" -> "O" [] c = "p" -> "P"
      [] c = "q" -> "Q" [] c = "r" -> "R" [] c = "s" -> "S" [] c = "t" -> "T"
      [] c = "u" -> "U" [] c = "v" -> "V" [] c = "w" -> "W" [] c = "x" -> "X"
      [] c = "y" -> "Y" [] c = "z" -> "Z" [] OTHER -> c

\* text.upper() for a sequence of characters
Upper(text) == [i \in 1..Len(text) |-> UpperChar(text[i])]

\* the text of a sequence of characters
Text(chars) == Join("", chars)

\* the upper-case attribute names of the logging module, as characters
CRITICAL_NAME == <<"C", "R", "I", "T", "I", "C", "A", "L">>
FATAL_NAME == <<"F", "A", "T", "A", "L">>
ERROR_NAME == <<"E", "R", "R", "O", "R">>
WARNING_NAME == <<"W", "A", "R", "N", "I", "N", "G">>
WARN_NAME == <<"W", "A", "R", "N">>
INFO_NAME == <<"I", "N", "F", "O">>
DEBUG_NAME == <<"D", "E", "B", "U", "G">>
NOTSET_NAME == <<"N", "O", "T", "S", "E", "T">>
BASIC_FORMAT_NAME == <<"B", "A", "S", "I", "C", "_", "F", "O", "R", "M", "A", "T">>
STYLES_NAME == <<"_", "S", "T", "Y", "L", "E", "S">>

\* getattr(logging, name, default): the upper-case names of the logging
\* module are the levels and aliases, BASIC_FORMAT (a str) and _STYLES (a
\* dict); values are <<"i", n>>, <<"s", text>> or <<"d">>
logging_getattr(name, default) ==
    CASE name = CRITICAL_NAME -> <<"i", 50>>
      [] name = FATAL_NAME -> <<"i", 50>>
      [] name = ERROR_NAME -> <<"i", 40>>
      [] name = WARNING_NAME -> <<"i", 30>>
      [] name = WARN_NAME -> <<"i", 30>>
      [] name = INFO_NAME -> <<"i", 20>>
      [] name = DEBUG_NAME -> <<"i", 10>>
      [] name = NOTSET_NAME -> <<"i", 0>>
      [] name = BASIC_FORMAT_NAME -> <<"s", "%(levelname)s:%(name)s:%(message)s">>
      [] name = STYLES_NAME -> <<"d">>
      [] OTHER -> default

\* log_level = getattr(logging, settings.LOG_LEVEL.upper(), logging.INFO)
log_level(text) == logging_getattr(Upper(text), <<"i", 20>>)

\* Logger.setLevel(level): "" when the level is accepted, else the error
\* raised (a str must be a level name, anything else must be an int)
setLevel_error(level) ==
    IF level[1] = "i" THEN ""
    ELSE IF level[1] = "s" THEN "ValueError: Unknown level"
    ELSE "TypeError: Level not an integer or a valid string"

\* the handler setup_logging creates (lines 60-71) in its n-th call
NewHandler(log_format, n) ==
    [stream |-> "stdout",
     formatter |-> IF log_format = "json" THEN "JSONFormatter" ELSE "Formatter",
     created_by |-> n]

\* a handler attached by other code
ForeignHandler == [stream |-> "stderr", formatter |-> "Formatter", created_by |-> 0]

\* a record attribute: absent, or present with a value (which may be None)
Absent == [has |-> FALSE, v |-> <<"null">>]
Attr(x) == [has |-> TRUE, v |-> x]
PyNone == <<"null">>

\* a LogRecord: exc_info is an Optional text of the exception, the three
\* extras are attributes that may be missing
LogRecord(name, levelname, levelno, msg, exc_info, user_id, request_id, duration_ms) ==
    [name |-> name, levelname |-> levelname, levelno |-> levelno, msg |-> msg,
     exc_info |-> exc_info, user_id |-> user_id, request_id |-> request_id,
     duration_ms |-> duration_ms]

\* JSONFormatter.format emitting every optional key, null when missing
JSONFormatter_format_AllKeys(record, t) ==
    {<<"timestamp", <<"t", Timestamp(t)>>>>,
     <<"level", <<"s", record.levelname>>>>,
     <<"logger", <<"s", record.name>>>>,
     <<"message", <<"s", record.msg>>>>,
     <<"exception", IF record.exc_info.some
                    THEN <<"s", record.exc_info.v>> ELSE PyNone>>,
     <<"user_id", record.user_id.v>>,
     <<"request_id", record.request_id.v>>,
     <<"duration_ms", record.duration_ms.v>>}

\* JSONFormatter.format(record) (lines 24-47): the JSON object written, as
\* its set of <<key, value>> members; a value is <<"s", text>>, <<"i", n>>,
\* <<"t", timestamp>> or <<"null">>
JSONFormatter_format(record, t) ==
    {<<"timestamp", <<"t", Timestamp(t)>>>>,
     <<"level", <<"s", record.levelname>>>>,
     <<"logger", <<"s", record.name>>>>,
     <<"message", <<"s", record.msg>>>>}
    \cup (IF record.exc_info.some
          THEN {<<"exception", <<"s", record.exc_info.v>>>>} ELSE {})
    \cup (IF record.user_id.has THEN {<<"user_id", record.user_id.v>>} ELSE {})
    \cup (IF record.request_id.has
          THEN {<<"request_id", record.request_id.v>>} ELSE {})
    \cup (IF record.duration_ms.has
          THEN {<<"duration_ms", record.duration_ms.v>>} ELSE {})

\* logging.Formatter("%(asctime)s - %(name)s - %(levelname)s - %(message)s")
Formatter_format(record, t) ==
    <<"asctime", t>> \o <<" - " \o record.name \o " - " \o record.levelname
                           \o " - " \o record.msg>>

\* what handler h writes for the record
HandlerLine(h, record, t) ==
    [stream |-> h.stream,
     line |-> IF h.formatter = "JSONFormatter"
              THEN <<"json", JSONFormatter_format(record, t)>>
              ELSE <<"text", Formatter_format(record, t)>>]

\* the lines written when the record reaches the root logger's handlers:
\* one per handler, when the record's level passes the root level
Emit(handlers, level, record, t) ==
    IF record.levelno >= level
    THEN [i \in 1..Len(handlers) |-> HandlerLine(handlers[i], record, t)]
    ELSE <<>>

\* the state of the logging system before any of the modelled code ran
LoggingUntouched ==
    /\ root_handlers = <<>>
    /\ root_level = 30
    /\ lib_levels = [httpx |-> 0, httpcore |-> 0, openai |-> 0]
    /\ setup_calls = 0
    /\ setup_status = ""
    /\ dirty = FALSE
    /\ last_op = ""
    /\ last_record = <<>>
    /\ emitted = <<>>

(***************************************************************************)
(* Inputs of the request flow.                                             *)
(***************************************************************************)
Messages == {"Invalid email", ""}
MessageArgs == {NoneStr, Some("Token expired")}
DetailArgs == {NoneDict, Some({}), Some({<<"field", "email">>})}
CodeArgs == {NoneStr, Some("TEAPOT")}
StatusArgs == {NoneInt, Some(418)}
Resources == {"Deck", ""}
ResourceIds == {NoneId, Some(<<"i", 0>>), Some(<<"i", 42>>), Some(<<"i", -7>>),
                Some(<<"s", "">>), Some(<<"s", "abc">>)}
Services == {"OpenAI"}
Credits == {0, 3, 10}

\* one entry of RequestValidationError.errors()
FieldErrors ==
    {[loc |-> <<<<"s", "body">>, <<"s", "email">>>>, msg |-> "field required",
      type |-> "missing"],
     [loc |-> <<<<"s", "query">>, <<"s", "items">>, <<"i", 0>>>>,
      msg |-> "value is not a valid integer", type |-> "int_parsing"],
     [loc |-> <<>>, msg |-> "invalid", type |-> "value_error"]}

RECURSIVE SeqsUpTo(_, _)
SeqsUpTo(S, n) ==
    IF n = 0 THEN {<<>>}
    ELSE LET shorter == SeqsUpTo(S, n - 1)
         IN shorter \cup {Append(q, x) : q \in shorter, x \in S}

UnhandledClasses == {"Exception", "ValueError", "KeyError", "ValidationError"}
ExceptionTexts == {"connection to 10.0.0.5:5432 refused", "division by zero", ""}

\* outcome of a call on the module logger: it returns, or it raises
LogOutcomes == {"ok", "raises"}
\* the exception a failing logging call raises
LoggingFailure == [cls |-> "Exception", text |-> "logging failed"]

(***************************************************************************)
(* The request flow: a route raises, the framework invokes the handler     *)
(* registered for the exception, the handler logs and answers.             *)
(***************************************************************************)
Init ==
    /\ \E env \in Environments :
         settings = <<Settings(env, <<"I", "N", "F", "O">>, "json",
                               DefaultCorsOrigins, <<"{", "}">>)>>
    /\ pc = "idle"
    /\ now = 0
    /\ request_exc = <<>>
    /\ ctor_args = <<>>
    /\ exc = <<>>
    /\ response = <<>>
    /\ calls = <<>>
    /\ escaped = FALSE
    /\ lastLog = <<>>
    /\ credentials = <<>>
    /\ cors_result = <<>>
    /\ allow_origins = <<DefaultCorsOrigins>>
    /\ LoggingUntouched

\* the route's exception e, constructed with args, starts to propagate
Raise(e, args) ==
    /\ pc' = "raised"
    /\ request_exc' = <<e>>
    /\ ctor_args' = <<args>>
    /\ exc' = <<e>>
    /\ response' = <<>>
    /\ calls' = <<>>
    /\ escaped' = FALSE
    /\ lastLog' = <<>>
    /\ UNCHANGED <<cfgVars, logVars, settings, now>>

RaiseAPIError ==
    /\ pc = "idle"
    /\ \E m \in Messages, c \in CodeArgs, s \in StatusArgs, d \in DetailArgs :
            Raise(APIError(m, c, s, d),
                  [message |-> m, code |-> c, status_code |-> s, details |-> d])

RaiseValidationException ==
    /\ pc = "idle"
    /\ \E m \in Messages, d \in DetailArgs :
            Raise(ValidationException(m, d), [message |-> m, details |-> d])

RaiseAuthenticationException ==
    /\ pc = "idle"
    /\ \E m \in MessageArgs : Raise(AuthenticationException(m), [message |-> m])

RaiseAuthorizationException ==
    /\ pc = "idle"
    /\ \E m \in MessageArgs : Raise(AuthorizationException(m), [message |-> m])

RaiseNotFoundException ==
    /\ pc = "idle"
    /\ \E r \in Resources, i \in ResourceIds :
            Raise(NotFoundException(r, i), [resource |-> r, resource_id |-> i])

RaiseConflictException ==
    /\ pc = "idle"
    /\ \E m \in Messages, d \in DetailArgs :
            Raise(ConflictException(m, d), [message |-> m, details |-> d])

RaiseRateLimitException ==
    /\ pc = "idle"
    /\ \E m \in MessageArgs : Raise(RateLimitException(m), [message |-> m])

RaiseExternalServiceException ==
    /\ pc = "idle"
    /\ \E sv \in Services, m \in Messages :
            Raise(ExternalServiceException(sv, m), [service |-> sv, message |-> m])

RaiseInsufficientCreditsException ==
    /\ pc = "idle"
    /\ \E r \in Credits, a \in Credits :
            Raise(InsufficientCreditsException(r, a),
                  [required |-> r, available |-> a])

RaiseRequestValidationError ==
    /\ pc = "idle"
    /\ \E errs \in SeqsUpTo(FieldErrors, MaxErrors) :
            Raise([cls |-> "RequestValidationError", errors |-> errs], [errors |-> errs])

RaiseUnhandled ==
    /\ pc = "idle"
    /\ \E c \in UnhandledClasses, t \in ExceptionTexts :
            Raise([cls |-> c, text |-> t], [text |-> t])

\* A handler of the inner exception layer: it logs, then returns resp.  When
\* the logging call raises, the exception leaves the handler and reaches
\* the handler registered for Exception.
InnerHandler(name, log, resp) ==
    /\ HandlerFor(exc[1]) = name
    /\ lastLog' = <<log>>
    /\ \E outcome \in LogOutcomes :
         IF outcome = "ok"
         THEN /\ calls' = Append(calls, [handler |-> name, log |-> outcome,
                                         returned |-> TRUE])
              /\ response' = <<resp>>
              /\ exc' = exc
              /\ pc' = "done"
         ELSE /\ calls' = Append(calls, [handler |-> name, log |-> outcome,
                                         returned |-> FALSE])
              /\ response' = <<>>
              /\ exc' = <<LoggingFailure>>
              /\ pc' = "raised"
    /\ UNCHANGED <<cfgVars, logVars, settings, now, request_exc, ctor_args, escaped>>

api_error_handler ==
    /\ pc = "raised"
    /\ InnerHandler("api_error_handler", ApiErrorLog(exc[1]),
                    ApiErrorResponse(exc[1], now))

validation_error_handler ==
    /\ pc = "raised"
    /\ InnerHandler("validation_error_handler", ValidationLog(exc[1]),
                    ValidationResponse(exc[1], now))

\* The handler registered for Exception.  When its logging call raises, the
\* exception leaves it and no handler is left to answer.
generic_error_handler ==
    /\ pc = "raised"
    /\ HandlerFor(exc[1]) = "generic_error_handler"
    /\ lastLog' = <<GenericLog(exc[1])>>
    /\ \E outcome \in LogOutcomes :
         IF outcome = "ok"
         THEN /\ calls' = Append(calls, [handler |-> "generic_error_handler",
                                         log |-> outcome, returned |-> TRUE])
              /\ response' = <<GenericResponse(settings[1].ENVIRONMENT, exc[1], now)>>
              /\ exc' = exc
              /\ escaped' = FALSE
         ELSE /\ calls' = Append(calls, [handler |-> "generic_error_handler",
                                         log |-> outcome, returned |-> FALSE])
              /\ response' = <<>>
              /\ exc' = <<LoggingFailure>>
              /\ escaped' = TRUE
    /\ pc' = "done"
    /\ UNCHANGED <<cfgVars, logVars, settings, now, request_exc, ctor_args>>

\* the next request arrives
NextRequest ==
    /\ pc = "done"
    /\ pc' = "idle"
    /\ UNCHANGED <<cfgVars, logVars, settings, now, errVars>>

\* time passes
Tick ==
    /\ now < MaxClock
    /\ now' = now + 1
    /\ UNCHANGED <<cfgVars, logVars, settings, pc, errVars>>

Next ==
    \/ RaiseUnhandled
    \/ RaiseAPIError
    \/ RaiseValidationException
    \/ RaiseAuthenticationException
    \/ RaiseAuthorizationException
    \/ RaiseNotFoundException
    \/ RaiseConflictException
    \/ RaiseRateLimitException
    \/ RaiseExternalServiceException
    \/ RaiseInsufficientCreditsException
    \/ RaiseRequestValidationError
    \/ generic_error_handler
    \/ api_error_handler
    \/ validation_error_handler
    \/ NextRequest
    \/ Tick

Spec == Init /\ [][Next]_vars

(***************************************************************************)
(* Properties of the request flow.                                         *)
(***************************************************************************)
\* the handler invocation that answered the request, when one did
Answered == pc = "done" /\ Len(response) = 1
AnsweredBy(name) == Answered /\ calls[Len(calls)].handler = name
Envelope == response[1].content.error

\* the table of section 4.3: kind -> <<HTTP status, code>>
KindRow(cls) ==
    CASE cls = "ValidationException" -> <<400, "VALIDATION_ERROR">>
      [] cls = "AuthenticationException" -> <<401, "AUTHENTICATION_ERROR">>
      [] cls = "AuthorizationException" -> <<403, "AUTHORIZATION_ERROR">>
      [] cls = "NotFoundException" -> <<404, "NOT_FOUND">>
      [] cls = "ConflictException" -> <<409, "CONFLICT">>
      [] cls = "RateLimitException" -> <<429, "RATE_LIMIT_EXCEEDED">>
      [] cls = "InsufficientCreditsException" -> <<402, "INSUFFICIENT_CREDITS">>
      [] cls = "ExternalServiceException" -> <<503, "EXTERNAL_SERVICE_ERROR">>
      [] cls = "APIError" -> <<500, "INTERNAL_SERVER_ERROR">>

\* the envelope carries the handled error's own message and details
OwnMessageAndDetails ==
    /\ Envelope.message = exc[1].message
    /\ Envelope.details = exc[1].details

\* C1 as stated: the response the typed-error handler produces has the HTTP
\* status and code of its kind's row in the table, for every kind (the base
\* APIError included) and every choice of constructor arguments, and the
\* error's own message and details, in every environment.
C1_TableRowForEveryKind ==
    AnsweredBy("api_error_handler") =>
        /\ response[1].status_code = KindRow(exc[1].cls)[1]
        /\ Envelope.code = KindRow(exc[1].cls)[2]
        /\ OwnMessageAndDetails

\* C1 amended: the response the typed-error handler produces has the status
\* and code of its kind's row for every subclass of APIError; for the base
\* APIError it has the code and status_code the error was constructed with,
\* which are INTERNAL_SERVER_ERROR and 500 when the argument is not passed;
\* message and details are the error's own, in every environment.
C1_TableRowUnlessOverridden ==
    AnsweredBy("api_error_handler") =>
        /\ exc[1].cls # "APIError" =>
              /\ response[1].status_code = KindRow(exc[1].cls)[1]
              /\ Envelope.code = KindRow(exc[1].cls)[2]
        /\ exc[1].cls = "APIError" =>
              /\ response[1].status_code =
                     IF ctor_args[1].status_code.some
                     THEN ctor_args[1].status_code.v ELSE 500
              /\ Envelope.code =
                     IF ctor_args[1].code.some
                     THEN ctor_args[1].code.v ELSE "INTERNAL_SERVER_ERROR"
        /\ OwnMessageAndDetails

\* C1 witness: in production a base APIError constructed with its own code
\* and status has been answered by the typed-error handler.
C1_Witness ==
    /\ AnsweredBy("api_error_handler")
    /\ settings[1].ENVIRONMENT = "production"
    /\ exc[1].cls = "APIError"
    /\ ctor_args[1].code.some
    /\ ctor_args[1].status_code.some
    /\ ctor_args[1].details.some

\* C2: the envelope the generic handler produces is 500 /
\* INTERNAL_SERVER_ERROR; in production its message is the fixed text and
\* nothing in it but the timestamp varies with the exception; in every other
\* environment its message is the exception's text.
C2_RedactedInProduction ==
    AnsweredBy("generic_error_handler") =>
        /\ response[1].status_code = 500
        /\ Envelope.code = "INTERNAL_SERVER_ERROR"
        /\ settings[1].ENVIRONMENT = "production" =>
              /\ Envelope.message = "An internal error occurred"
              /\ Envelope.details = {}
              /\ DOMAIN Envelope = {"code", "message", "details", "timestamp"}
        /\ settings[1].ENVIRONMENT # "production" =>
              Envelope.message = exc[1].text

\* C2 witness: in production an exception with a non-empty text of its own
\* has been answered by the generic handler.
C2_Witness ==
    /\ AnsweredBy("generic_error_handler")
    /\ settings[1].ENVIRONMENT = "production"
    /\ exc[1].text = "connection to 10.0.0.5:5432 refused"

\* the canonical envelope: one top-level key, four keys below it, details a
\* mapping
CanonicalEnvelope(r) ==
    /\ DOMAIN r.content = {"error"}
    /\ DOMAIN r.content.error = {"code", "message", "details", "timestamp"}
    /\ IsFiniteSet(r.content.error.details)

\* C3: every exception raised while handling a request is consumed by
\* exactly one handler, the one registered for the most specific class, and
\* the request is answered with the canonical envelope.
C3_OneHandlerOneEnvelope ==
    pc = "done" =>
        /\ Len(calls) = 1
        /\ calls[1].handler = HandlerFor(request_exc[1])
        /\ Len(response) = 1
        /\ CanonicalEnvelope(response[1])

\* C4: NotFoundException(R) has message "R not found", and
\* NotFoundException(R, I) with an identifier supplied, 0 and "" included,
\* has message "R not found (id: I)".
C4_IdSuffixWhenSupplied ==
    (Len(request_exc) = 1 /\ request_exc[1].cls = "NotFoundException") =>
        request_exc[1].message =
            IF ctor_args[1].resource_id.some
            THEN ctor_args[1].resource \o " not found (id: "
                     \o PyStr(ctor_args[1].resource_id.v) \o ")"
            ELSE ctor_args[1].resource \o " not found"

\* C5: a handler whose logging call raises still returns the envelope.
C5_LoggingFailureStillAnswers ==
    \A i \in 1..Len(calls) :
        calls[i].log = "raises" => calls[i].returned

(***************************************************************************)
(* Start-up and the settings accessors (settings.py, main.py).             *)
(***************************************************************************)
JsonTokens == {"{", "}", ":", "\"type\""}
NoneKey == [some |-> FALSE, v |-> <<>>]
\* GOOGLE_SERVICE_ACCOUNT_KEY in the environment: absent, or any token text
GoogleKeyEnv == {NoneKey} \cup {Some(k) : k \in SeqsUpTo(JsonTokens, MaxKeyLen)}
CorsOriginsEnv ==
    {DefaultCorsOrigins, ProductionCorsOrigins, <<"https://evil.example">>, <<>>}

SettingsInit ==
    /\ settings = <<>>
    /\ pc = "boot"
    /\ now = 0
    /\ request_exc = <<>>
    /\ ctor_args = <<>>
    /\ exc = <<>>
    /\ response = <<>>
    /\ calls = <<>>
    /\ escaped = FALSE
    /\ lastLog = <<>>
    /\ credentials = <<>>
    /\ cors_result = <<>>
    /\ allow_origins = <<>>
    /\ LoggingUntouched

\* settings = Settings() (settings.py:145): GOOGLE_SERVICE_ACCOUNT_KEY is a
\* required str field, so construction fails when it is absent and accepts
\* any text when it is present
LoadSettings ==
    /\ pc = "boot"
    /\ \E env \in Environments, cors \in CorsOriginsEnv, key \in GoogleKeyEnv :
         IF key.some
         THEN /\ settings' = <<Settings(env, <<"I", "N", "F", "O">>, "json",
                                        cors, key.v)>>
              /\ pc' = "loaded"
         ELSE /\ settings' = <<>>
              /\ pc' = "startup_failed"
    /\ UNCHANGED <<now, errVars, cfgVars, logVars>>

\* start-up registering get_cors_origins() with CORSMiddleware instead of
\* settings.CORS_ORIGINS
AddCorsMiddleware_Selector ==
    /\ pc = "loaded"
    /\ allow_origins' = <<get_cors_origins(settings[1])>>
    /\ pc' = "running"
    /\ UNCHANGED <<settings, now, errVars, logVars, credentials, cors_result>>

\* app.add_middleware(CORSMiddleware, allow_origins=settings.CORS_ORIGINS, ...)
\* (main.py:89-96), after which the application is up
AddCorsMiddleware ==
    /\ pc = "loaded"
    /\ allow_origins' = <<settings[1].CORS_ORIGINS>>
    /\ pc' = "running"
    /\ UNCHANGED <<settings, now, errVars, logVars, credentials, cors_result>>

\* some code reads settings.google_credentials_dict
ReadGoogleCredentials ==
    /\ pc = "running"
    /\ credentials' = <<google_credentials_dict(settings[1])>>
    /\ UNCHANGED <<settings, pc, now, errVars, logVars, cors_result, allow_origins>>

\* some code calls get_cors_origins()
GetCorsOrigins ==
    /\ pc = "running"
    /\ cors_result' = <<get_cors_origins(settings[1])>>
    /\ UNCHANGED <<settings, pc, now, errVars, logVars, credentials, allow_origins>>

SettingsNext ==
    \/ LoadSettings
    \/ AddCorsMiddleware
    \/ ReadGoogleCredentials
    \/ GetCorsOrigins

SettingsSpec == SettingsInit /\ [][SettingsNext]_vars

\* C6: start-up never completes with a malformed GOOGLE_SERVICE_ACCOUNT_KEY:
\* once the application is up, no read of the parsed-credentials accessor
\* raises.
C6_MalformedKeyFailsStartup ==
    (pc = "running" /\ Len(credentials) = 1) => credentials[1].raised = ""

\* C10: get_cors_origins() returns the fixed three-entry production list when
\* ENVIRONMENT is exactly "production", whatever CORS_ORIGINS is, and the
\* configured CORS_ORIGINS otherwise.
C10_CorsByEnvironment ==
    Len(cors_result) = 1 =>
        IF settings[1].ENVIRONMENT = "production"
        THEN cors_result[1] = <<"https://slidebanai.com",
                                "https://www.slidebanai.com",
                                "https://app.slidebanai.com">>
        ELSE cors_result[1] = settings[1].CORS_ORIGINS

\* C10 witness: in production, with a configured list that is not the
\* production list, get_cors_origins() has returned.
C10_Witness ==
    /\ Len(cors_result) = 1
    /\ Len(cors_result[1]) = 3
    /\ settings[1].ENVIRONMENT = "production"
    /\ settings[1].CORS_ORIGINS = <<"https://evil.example">>

\* C11: the allow-list start-up registers with CORSMiddleware is the
\* configured settings.CORS_ORIGINS in every environment, production
\* included; get_cors_origins() is not consulted, so in production the
\* registered list is the fixed production list only if CORS_ORIGINS was
\* configured to that same list.
C11_RegisteredListIsConfigured ==
    Len(allow_origins) = 1 =>
        /\ allow_origins[1] = settings[1].CORS_ORIGINS
        /\ (settings[1].ENVIRONMENT = "production"
              /\ allow_origins[1] = ProductionCorsOrigins)
            => settings[1].CORS_ORIGINS = ProductionCorsOrigins

\* C11 witness: the application is up in production with a configured list
\* that is not the production list, and that configured list is what was
\* registered, while get_cors_origins() returns the production list.
C11_Witness ==
    /\ pc = "running"
    /\ Len(allow_origins) = 1
    /\ settings[1].ENVIRONMENT = "production"
    /\ settings[1].CORS_ORIGINS = <<"https://evil.example">>
    /\ allow_origins[1] = <<"https://evil.example">>
    /\ Len(cors_result) = 1
    /\ cors_result[1] = ProductionCorsOrigins

(***************************************************************************)
(* The logging flow: setup_logging() is called, other code attaches        *)
(* handlers, records are logged.                                           *)
(***************************************************************************)
LogLevelEnv ==
    {<<"d", "e", "b", "u", "g">>,
     <<"D", "e", "b", "u", "g">>,
     <<"D", "E", "B", "U", "G">>,
     <<"I", "N", "F", "O">>,
     <<"w", "a", "r", "n", "i", "n", "g">>,
     <<"w", "a", "r", "n">>,
     <<"c", "r", "i", "t", "i", "c", "a", "l">>,
     <<"n", "o", "t", "s", "e", "t">>,
     <<"v", "e", "r", "b", "o", "s", "e">>,
     <<>>,
     <<"b", "a", "s", "i", "c", "_", "f", "o", "r", "m", "a", "t">>,
     <<"B", "a", "s", "i", "c", "_", "F", "o", "r", "m", "a", "t">>}
LogFormatEnv == {"json", "text"}

LogRecords ==
    {LogRecord("app", lv[1], lv[2], "request served", ei, uid, rid, dur) :
        lv \in {<<"DEBUG", 10>>, <<"INFO", 20>>, <<"ERROR", 40>>},
        ei \in {NoneStr, Some("ValueError: boom")},
        uid \in {Absent, Attr(PyNone), Attr(<<"s", "u1">>)},
        rid \in {Absent, Attr(<<"s", "r1">>)},
        dur \in {Absent, Attr(PyNone), Attr(<<"i", 12>>)}}

LoggingInit ==
    /\ \E lvl \in LogLevelEnv, fmt \in LogFormatEnv :
         settings = <<Settings("development", lvl, fmt, DefaultCorsOrigins,
                               <<"{", "}">>)>>
    /\ pc = "running"
    /\ now = 0
    /\ request_exc = <<>>
    /\ ctor_args = <<>>
    /\ exc = <<>>
    /\ response = <<>>
    /\ calls = <<>>
    /\ escaped = FALSE
    /\ lastLog = <<>>
    /\ credentials = <<>>
    /\ cors_result = <<>>
    /\ allow_origins = <<>>
    /\ root_handlers \in SeqsUpTo({ForeignHandler}, MaxHandlers)
    /\ root_level = 30
    /\ lib_levels = [httpx |-> 0, httpcore |-> 0, openai |-> 0]
    /\ setup_calls = 0
    /\ setup_status = ""
    /\ dirty = FALSE
    /\ last_op = ""
    /\ last_record = <<>>
    /\ emitted = <<>>

\* setup_logging() (lines 50-86)
setup_logging ==
    /\ setup_calls < MaxSetupCalls
    /\ setup_calls' = setup_calls + 1
    /\ dirty' = FALSE
    /\ last_op' = "setup_logging"
    /\ LET level == log_level(settings[1].LOG_LEVEL)
           handler == NewHandler(settings[1].LOG_FORMAT, setup_calls + 1)
           record == LogRecord("config.logging_config", "INFO", 20,
                               "Logging initialized (level="
                                   \o Text(settings[1].LOG_LEVEL) \o ", format="
                                   \o settings[1].LOG_FORMAT \o ")",
                               NoneStr, Absent, Absent, Absent)
       IN IF setLevel_error(level) = ""
          THEN /\ root_level' = level[2]
               /\ root_handlers' = <<handler>>
               /\ lib_levels' = [httpx |-> 30, httpcore |-> 30, openai |-> 20]
               /\ setup_status' = "ok"
               /\ last_record' = <<record>>
               /\ emitted' = Emit(<<handler>>, level[2], record, now)
          ELSE /\ setup_status' = setLevel_error(level)
               /\ UNCHANGED <<root_level, root_handlers, lib_levels,
                              last_record, emitted>>
    /\ UNCHANGED <<settings, pc, now, errVars, cfgVars>>

\* other code attaches a handler of its own to the root logger
AddHandler ==
    /\ Len(root_handlers) < MaxHandlers
    /\ root_handlers' = Append(root_handlers, ForeignHandler)
    /\ dirty' = TRUE
    /\ last_op' = "addHandler"
    /\ UNCHANGED <<settings, pc, now, errVars, cfgVars, root_level, lib_levels,
                   setup_calls, setup_status, last_record, emitted>>

\* application code logs a record on a logger that propagates to the root
LogMessage ==
    /\ \E record \in LogRecords :
         /\ last_record' = <<record>>
         /\ emitted' = Emit(root_handlers, root_level, record, now)
    /\ last_op' = "log"
    /\ UNCHANGED <<settings, pc, now, errVars, cfgVars, root_handlers, root_level,
                   lib_levels, setup_calls, setup_status, dirty>>

LoggingNext ==
    \/ setup_logging
    \/ AddHandler
    \/ LogMessage

LoggingSpec == LoggingInit /\ [][LoggingNext]_vars

(***************************************************************************)
(* Properties of the logging flow.                                         *)
(***************************************************************************)
\* C7: after one or more setup_logging() calls (and no handler attached by
\* other code since the last one) the root logger has exactly one handler,
\* the stdout handler the last call installed, whatever was attached before,
\* and a logged message is written as exactly one line.
C7_ExactlyOneHandlerAfterSetup ==
    (setup_calls >= 1 /\ ~dirty) =>
        /\ Len(root_handlers) = 1
        /\ root_handlers[1].stream = "stdout"
        /\ root_handlers[1].created_by = setup_calls
        /\ (last_op = "log" /\ last_record[1].levelno >= root_level) =>
               Len(emitted) = 1

\* the level a severity name stands for, INFO for any other text
SeverityOrInfo(name) ==
    CASE name \in {"CRITICAL", "FATAL"} -> 50
      [] name = "ERROR" -> 40
      [] name \in {"WARNING", "WARN"} -> 30
      [] name = "INFO" -> 20
      [] name = "DEBUG" -> 10
      [] name = "NOTSET" -> 0
      [] OTHER -> 20

\* C8: setup_logging() completes without error for every LOG_LEVEL and
\* leaves the root level at the level the text names, letter case ignored,
\* or at INFO when the text is no severity name.
C8_LevelCaseInsensitiveElseInfo ==
    setup_calls >= 1 =>
        /\ setup_status = "ok"
        /\ root_level = SeverityOrInfo(Text(Upper(settings[1].LOG_LEVEL)))

\* the JSON objects written for the last record
JsonObjects ==
    {emitted[i].line[2] : i \in {j \in 1..Len(emitted) : emitted[j].line[1] = "json"}}
Keys(obj) == {m[1] : m \in obj}
ValueOf(obj, key) == (CHOOSE m \in obj : m[1] = key)[2]
BaseKeys == {"timestamp", "level", "logger", "message"}
\* the optional keys present on the record: exc_info set, attribute there
PresentKeys(record) ==
    {k \in {"exception"} : record.exc_info.some}
    \cup {k \in {"user_id"} : record.user_id.has}
    \cup {k \in {"request_id"} : record.request_id.has}
    \cup {k \in {"duration_ms"} : record.duration_ms.has}
\* the attributes the record carries with the value None
NoneKeys(record) ==
    {k \in {"user_id"} : record.user_id.has /\ record.user_id.v = <<"null">>}
    \cup {k \in {"request_id"} :
              record.request_id.has /\ record.request_id.v = <<"null">>}
    \cup {k \in {"duration_ms"} :
              record.duration_ms.has /\ record.duration_ms.v = <<"null">>}

\* C9 as stated: the JSON object has the four base keys plus exactly the
\* optional keys present on the record, and no optional key is ever null.
C9_PresentKeysNeverNull ==
    \A obj \in JsonObjects :
        /\ Keys(obj) = BaseKeys \cup PresentKeys(last_record[1])
        /\ \A k \in Keys(obj) \ BaseKeys : ValueOf(obj, k) # <<"null">>

\* C9 amended: the JSON object has the four base keys plus exactly the
\* optional keys present on the record; an absent field is omitted; an
\* optional key is null exactly when the record carries that attribute with
\* the value None.
C9_PresentKeysNullOnlyIfNone ==
    \A obj \in JsonObjects :
        /\ Keys(obj) = BaseKeys \cup PresentKeys(last_record[1])
        /\ \A k \in Keys(obj) \ BaseKeys :
               ValueOf(obj, k) = <<"null">> <=> k \in NoneKeys(last_record[1])

\* C9 witness: a record with an exception, user_id None, a request_id and no
\* duration_ms has been written as a JSON object.
C9_Witness ==
    /\ last_op = "log"
    /\ JsonObjects # {}
    /\ last_record[1].exc_info.some
    /\ last_record[1].user_id = Attr(<<"null">>)
    /\ last_record[1].request_id.has
    /\ ~last_record[1].duration_ms.has

====
